---- MODULE Spec2Model ----
(***************************************************************************)
(* Model of examples/opentelemetry-error.rs: the WriterExporter span       *)
(* exporter (export, set_resource) and the Display implementation of       *)
(* SpanData that renders one span record and a resource as text.           *)
(*                                                                         *)
(* Text is modelled as a non-empty sequence of line fragments: the text    *)
(* "a\nb" is <<"a", "b">>, the text "a\n" is <<"a", "">>.  A text that     *)
(* ends with a line break therefore has "" as its last fragment, and its   *)
(* complete lines are all fragments but the last.                          *)
(***************************************************************************)
EXTENDS Integers, Sequences, FiniteSets, TLC

VARIABLES
    resource,    \* the exporter's field
    out,         \* what reached standard output: one text per writeln!
    pc,          \* "running", or "crashed" once a panic left export
    panic,       \* the message of that panic, or "none"
    ret,         \* what the last export returned to its caller, or "none"
    sinkFailed,  \* whether a write to the sink failed in the last export
    op,          \* the last operation called
    calls,       \* the number of export calls
    handed,      \* every record handed to export, in order
    lastBatch,   \* the batch of the last export call
    mark,        \* Len(out) when the last export call began
    lastSet      \* the argument of the last set_resource (or of new)

vars == <<resource, out, pc, panic, ret, sinkFailed, op, calls, handed,
          lastBatch, mark, lastSet>>

\* Bounds of the exploration.
MaxBatch == 2
MaxCalls == 2
MaxRecords == 2

(***************************************************************************)
(* Text                                                                    *)
(***************************************************************************)
Str(s) == <<s>>

NL == <<"", "">>

Cat(a, b) == SubSeq(a, 1, Len(a) - 1) \o <<a[Len(a)] \o b[1]>> \o Tail(b)

RECURSIVE CatAll(_)
CatAll(ts) == IF ts = <<>> THEN Str("") ELSE Cat(Head(ts), CatAll(Tail(ts)))

Lines(t) == SubSeq(t, 1, Len(t) - 1)

Min(a, b) == IF a <= b THEN a ELSE b

(***************************************************************************)
(* Values of the tracing library that the formatter displays with {}.      *)
(***************************************************************************)
StringValue(t) == [kind |-> "String", v |-> t]

I64Value(i) == [kind |-> "I64", v |-> i]

KV(k, v) == [key |-> k, value |-> v]

DisplayValue(v) == IF v.kind = "I64" THEN Str(ToString(v.v)) ELSE v.v

\* SystemTime as seconds and nanoseconds relative to the Unix epoch.
Time(s, ns) == [sec |-> s, nsec |-> ns]

\* SystemTime::duration_since(UNIX_EPOCH): Err when the time is earlier.
DurationSinceEpoch(t) ==
    IF t.sec >= 0 THEN [ok |-> TRUE, secs |-> t.sec, nanos |-> t.nsec]
                  ELSE [ok |-> FALSE, secs |-> 0, nanos |-> 0]

(***************************************************************************)
(* impl Display for SpanData: the sequence of steps fmt takes.  A step is  *)
(* one writeln! to the formatter, or a panic raised while its arguments    *)
(* are evaluated.                                                          *)
(***************************************************************************)
W(t) == [kind |-> "write", text |-> t]

P(msg) == [kind |-> "panic", text |-> Str(msg)]

Writeln(pieces) == W(Cat(CatAll(pieces), NL))

HeaderStep(span) == Writeln(<<Str("Span: \""), span.name, Str("\"")>>)

\* Variant: the description of an Error status is not written.
StatusStepsNoDescription(status) ==
    CASE status.code = "Unset" -> <<>>
      [] status.code = "Error" -> << Writeln(<<Str("- Status: Error")>>) >>
      [] status.code = "Ok" -> << Writeln(<<Str("- Status: Ok")>>) >>

StatusSteps(status) ==
    CASE status.code = "Unset" -> <<>>
      [] status.code = "Error" ->
            << Writeln(<<Str("- Status: Error")>>),
               Writeln(<<Str("- Error: "), status.description>>) >>
      [] status.code = "Ok" -> << Writeln(<<Str("- Status: Ok")>>) >>

\* .duration_since(UNIX_EPOCH).expect(msg).as_secs() inside a writeln!
TimeStep(label, t, msg) ==
    LET d == DurationSinceEpoch(t)
    IN  IF d.ok THEN Writeln(<<Str(label), Str(ToString(d.secs))>>)
                ELSE P(msg)

KVStep(k, v) == Writeln(<<Str("  - "), k, Str(": "), DisplayValue(v)>>)

ResourceSteps(res) ==
    <<Writeln(<<Str("- Resource:")>>)>>
        \o [i \in 1..Len(res) |-> KVStep(res[i].key, res[i].value)]

\* Variant: no header for a record without attributes.
AttributeStepsNoEmptyHeader(attrs) ==
    IF attrs = <<>> THEN <<>>
    ELSE <<Writeln(<<Str("- Attributes:")>>)>>
            \o [i \in 1..Len(attrs) |-> KVStep(attrs[i].key, attrs[i].value)]

AttributeSteps(attrs) ==
    <<Writeln(<<Str("- Attributes:")>>)>>
        \o [i \in 1..Len(attrs) |-> KVStep(attrs[i].key, attrs[i].value)]

None == [some |-> FALSE, v |-> Str("")]

Some(t) == [some |-> TRUE, v |-> t]

\* One step of the fold over an event's attributes.
FoldStep(acc, d) ==
    IF acc.some
    THEN Some(CatAll(<<acc.v, Str(", "), d.key, Str("="), DisplayValue(d.value)>>))
    ELSE Some(CatAll(<<d.key, Str(" = "), DisplayValue(d.value)>>))

RECURSIVE Fold(_, _)
Fold(acc, attrs) ==
    IF attrs = <<>> THEN acc ELSE Fold(FoldStep(acc, Head(attrs)), Tail(attrs))

EventStep(event) ==
    LET error == Fold(None, event.attributes)
    IN  IF error.some
        THEN Writeln(<<Str("  - \""), event.name, Str("\" {"), error.v, Str("}")>>)
        ELSE Writeln(<<Str("  - \""), event.name, Str("\"")>>)

EventSteps(events) ==
    <<Writeln(<<Str("- Events:")>>)>>
        \o [i \in 1..Len(events) |-> EventStep(events[i])]

\* {:?} of a link: one line, the derived Debug rendering of its fields.
DebugLink(link) == Str(link.debug)

LinkSteps(links) ==
    <<Writeln(<<Str("- Links:")>>)>>
        \o [i \in 1..Len(links) |-> Writeln(<<Str("  - "), DebugLink(links[i])>>)]

Fmt(span, res) ==
    <<HeaderStep(span)>>
        \o StatusSteps(span.status)
        \o << TimeStep("- Start: ", span.start_time,
                       "start time is before the unix epoch"),
              TimeStep("- End: ", span.end_time,
                       "end time is before the unix epoch") >>
        \o ResourceSteps(res)
        \o AttributeSteps(span.attributes)
        \o EventSteps(span.events)
        \o LinkSteps(span.links)

(***************************************************************************)
(* WriterExporter::export                                                  *)
(***************************************************************************)
FirstPanic(steps) ==
    LET ps == {i \in 1..Len(steps) : steps[i].kind = "panic"}
    IN  IF ps = {} THEN Len(steps) + 1
        ELSE CHOOSE i \in ps : \A j \in ps : i <= j

\* writeln!(writer, "{}", span_data) on a sink that accepts n more writes:
\* the steps of fmt, then the line break of the format string.  The text
\* is what reached the sink; the result is Ok, Err (a write failed) or the
\* message of the panic raised inside fmt.
WritelnSpan(span, res, n) ==
    LET steps == Fmt(span, res) \o <<W(NL)>>
        p     == FirstPanic(steps)
        m     == Min(p - 1, n)
    IN  [ text   |-> CatAll([i \in 1..m |-> steps[i].text]),
          used   |-> m,
          result |-> IF m = Len(steps) THEN "Ok"
                     ELSE IF p = m + 1 THEN steps[p].text[1]
                     ELSE "Err" ]

UnwrapMsg == "called Result::unwrap() on an Err value"

\* .unwrap() on the io::Result of a writeln!
Unwrap(result) == IF result = "Err" THEN UnwrapMsg ELSE result

\* for span in batch { ... writeln!(writer, "{}", span_data).unwrap(); } on a
\* sink that accepts n more writes: the texts delivered, one per writeln!,
\* whether a write failed, "Ok" or the message of the panic that ended the
\* loop, and the number of writes the sink still accepts.
RECURSIVE ForLoop(_, _, _)
ForLoop(batch, res, n) ==
    IF batch = <<>>
    THEN [writes |-> <<>>, failed |-> FALSE, outcome |-> "Ok", left |-> n]
    ELSE LET w == WritelnSpan(Head(batch), res, n)
         IN  IF Unwrap(w.result) = "Ok"
             THEN LET rest == ForLoop(Tail(batch), res, n - w.used)
                  IN  [rest EXCEPT !.writes = <<w.text>> \o rest.writes]
             ELSE [writes  |-> IF w.text = Str("") THEN <<>> ELSE <<w.text>>,
                   failed  |-> w.result = "Err",
                   outcome |-> Unwrap(w.result),
                   left    |-> 0]

\* writeln!(writer).unwrap() after the loop, and the value export returns.
Finish(l) ==
    IF l.outcome # "Ok"
    THEN [writes |-> l.writes, failed |-> l.failed, outcome |-> l.outcome]
    ELSE IF l.left >= 1
         THEN [writes |-> l.writes \o <<NL>>, failed |-> FALSE, outcome |-> "Ok"]
         ELSE [writes |-> l.writes, failed |-> TRUE, outcome |-> Unwrap("Err")]

Reverse(s) == [i \in 1..Len(s) |-> s[Len(s) + 1 - i]]

\* Variant: the loop takes the records from the end of the batch.
ExportBodyBackwards(batch, res, n) == Finish(ForLoop(Reverse(batch), res, n))

\* Variant: no writeln!(writer) after the loop.
ExportBodyNoLineBreak(batch, res, n) ==
    LET l == ForLoop(batch, res, n)
    IN  [writes |-> l.writes, failed |-> l.failed, outcome |-> l.outcome]

\* The body of export on a sink that accepts n more writes.
ExportBody(batch, res, n) == Finish(ForLoop(batch, res, n))

\* The number of writes export makes when nothing fails.
RECURSIVE TotalWrites(_, _)
TotalWrites(batch, res) ==
    IF batch = <<>> THEN 1
    ELSE Len(Fmt(Head(batch), res)) + 1 + TotalWrites(Tail(batch), res)

(***************************************************************************)
(* Inputs                                                                  *)
(***************************************************************************)
Unset == [code |-> "Unset", description |-> Str("")]

Ok == [code |-> "Ok", description |-> Str("")]

Error(d) == [code |-> "Error", description |-> d]

Event(n, attrs) == [name |-> n, attributes |-> attrs]

Link(d) == [debug |-> d]

SpanRecord(n, st, s, e, attrs, evs, ls) ==
    [name |-> n, status |-> st, start_time |-> s, end_time |-> e,
     attributes |-> attrs, events |-> evs, links |-> ls]

AppStart ==
    SpanRecord(Str("app_start"), Unset, Time(1700000000, 0), Time(1700000001, 5),
               <<>>, <<>>, <<>>)

FailableWork ==
    SpanRecord(Str("failable_work"),
               Error(Str("Encountered the error flag in the query")),
               Time(0, 0), Time(0, 25000000),
               <<KV(Str("fail"), StringValue(Str("true")))>>,
               << Event(Str("evt"), <<KV(Str("a"), StringValue(Str("1"))),
                                      KV(Str("b"), I64Value(2))>>),
                  Event(Str("About to exit!"), <<>>) >>,
               <<Link("Link { span_context: 1 }")>>)

ExpensiveStep1 ==
    SpanRecord(Str("expensive_step_1"), Ok, Time(1700000000, 0), Time(1700000000, 0),
               <<KV(Str("work_units"), I64Value(2)),
                 KV(Str("thread"), StringValue(Str("main")))>>,
               <<Event(Str("hello"), <<KV(Str("error"), StringValue(Str("test")))>>)>>,
               <<>>)

EarlyStart ==
    SpanRecord(Str("early_start"), Ok, Time(-1, 999999999), Time(3, 0),
               <<>>, <<>>, <<>>)

EarlyEnd ==
    SpanRecord(Str("early_end"), Unset, Time(2, 0), Time(-5, 0),
               <<>>, <<>>, <<>>)

\* A record whose attribute value holds a line break.
TwoLines ==
    SpanRecord(Str("two_lines"), Unset, Time(7, 0), Time(8, 0),
               <<KV(Str("note"), StringValue(<<"x", "y">>))>>, <<>>, <<>>)

Spans == {AppStart, FailableWork, ExpensiveStep1, EarlyStart, EarlyEnd, TwoLines}

\* Resource::default(), in its iteration order.
DefaultResource ==
    << KV(Str("service.name"), StringValue(Str("unknown_service"))),
       KV(Str("telemetry.sdk.language"), StringValue(Str("rust"))) >>

DemoResource == <<KV(Str("service"), StringValue(Str("demo")))>>

EmptyResource == <<>>

Resources == {DemoResource, EmptyResource}

Batches ==
    UNION {[1..k -> Spans] : k \in 0..MaxBatch}

(***************************************************************************)
(* The exporter as a state machine                                         *)
(***************************************************************************)
\* main: WriterExporter{resource: Resource::default()}
Init ==
    /\ resource = DefaultResource
    /\ out = <<>>
    /\ pc = "running"
    /\ panic = "none"
    /\ ret = "none"
    /\ sinkFailed = FALSE
    /\ op = "new"
    /\ calls = 0
    /\ handed = <<>>
    /\ lastBatch = <<>>
    /\ mark = 0
    /\ lastSet = DefaultResource

Export(batch) ==
    /\ pc = "running"
    /\ calls < MaxCalls
    /\ Len(handed) + Len(batch) <= MaxRecords
    /\ \E n \in 0..TotalWrites(batch, resource) :
          LET r == ExportBody(batch, resource, n)
          IN  /\ out' = out \o r.writes
              /\ pc' = IF r.outcome = "Ok" THEN "running" ELSE "crashed"
              /\ panic' = IF r.outcome = "Ok" THEN "none" ELSE r.outcome
              /\ ret' = IF r.outcome = "Ok" THEN "Ok" ELSE "none"
              /\ sinkFailed' = r.failed
    /\ op' = "export"
    /\ calls' = calls + 1
    /\ handed' = handed \o batch
    /\ lastBatch' = batch
    /\ mark' = Len(out)
    /\ UNCHANGED <<resource, lastSet>>

\* Variant: the argument is not stored.
SetResourceStale(r) ==
    /\ pc = "running"
    /\ resource' = resource
    /\ lastSet' = r
    /\ op' = "set_resource"
    /\ UNCHANGED <<out, pc, panic, ret, sinkFailed, calls, handed, lastBatch, mark>>

\* Variant: a line break is written to the sink.
SetResourceFlush(r) ==
    /\ pc = "running"
    /\ resource' = r
    /\ lastSet' = r
    /\ out' = out \o <<NL>>
    /\ op' = "set_resource"
    /\ UNCHANGED <<pc, panic, ret, sinkFailed, calls, handed, lastBatch, mark>>

SetResource(r) ==
    /\ pc = "running"
    /\ resource' = r
    /\ lastSet' = r
    /\ op' = "set_resource"
    /\ UNCHANGED <<out, pc, panic, ret, sinkFailed, calls, handed, lastBatch, mark>>

Next ==
    \/ \E batch \in Batches : Export(batch)
    \/ \E r \in Resources : SetResource(r)

Spec == Init /\ [][Next]_vars

(***************************************************************************)
(* Vocabulary of the properties                                            *)
(***************************************************************************)
\* a is an initial part of b that ends at a line break, or all of b.
TextPrefix(a, b) ==
    /\ Len(a) <= Len(b)
    /\ \A i \in 1..(Len(a) - 1) : a[i] = b[i]
    /\ \/ a[Len(a)] = ""
       \/ Len(a) = Len(b) /\ a[Len(a)] = b[Len(a)]

\* The text fmt produces for a record, up to a panic if it raises one.
Rendered(span, res) ==
    LET steps == Fmt(span, res)
    IN  CatAll([i \in 1..(FirstPanic(steps) - 1) |-> steps[i].text])

\* A rendered record followed by a blank line.
Block(span, res) == Cat(Rendered(span, res), NL)

IsBlock(e) == e # NL

\* The texts the last export call delivered, and those of them that belong
\* to a record.
NewWrites == SubSeq(out, mark + 1, Len(out))

NewBlocks == SelectSeq(NewWrites, IsBlock)

BeforeEpoch(span) == span.start_time.sec < 0 \/ span.end_time.sec < 0

EndsWithBlankLine(e) == Len(e) >= 3 /\ e[Len(e)] = "" /\ e[Len(e) - 1] = ""

\* No name, description, key or value of the record or resource holds a
\* line break.
OneLineKVs(kvs) ==
    \A i \in 1..Len(kvs) :
        Len(kvs[i].key) = 1 /\ Len(DisplayValue(kvs[i].value)) = 1

OneLine(span, res) ==
    /\ Len(span.name) = 1
    /\ Len(span.status.description) = 1
    /\ OneLineKVs(span.attributes)
    /\ OneLineKVs(res)
    /\ \A i \in 1..Len(span.events) :
          Len(span.events[i].name) = 1 /\ OneLineKVs(span.events[i].attributes)

(***************************************************************************)
(* C1: if a write to the sink fails during export, export reports an       *)
(* error to its caller and the process does not crash.                     *)
(***************************************************************************)
C1_WriteFailureReported ==
    sinkFailed => (pc # "crashed" /\ ret = "Err")

(***************************************************************************)
(* C2: every span block written by an export call carries the resource of  *)
(* the most recent set_resource call before it (the construction-time      *)
(* resource if there was none): the block is the rendering of its record   *)
(* under that one resource, cut short only by a panic.                     *)
(***************************************************************************)
C2_LatestResource ==
    op = "export" =>
        /\ Len(NewBlocks) <= Len(lastBatch)
        /\ \A i \in 1..Len(NewBlocks) :
              /\ TextPrefix(NewBlocks[i], Block(lastBatch[i], lastSet))
              /\ (i < Len(NewBlocks) \/ pc = "running")
                    => NewBlocks[i] = Block(lastBatch[i], lastSet)

C2_Witness ==
    /\ op = "export"
    /\ pc = "running"
    /\ calls = 2
    /\ lastSet = DemoResource
    /\ Len(lastBatch) = 1
    /\ mark >= 2
    /\ out[1] = Block(handed[1], DefaultResource)
    /\ out[mark + 1] = Block(lastBatch[1], DemoResource)

(***************************************************************************)
(* C3: the span blocks appear in the sink in call order and, within a      *)
(* call, in batch order; each is written entirely before the next begins,  *)
(* none is skipped and none is written twice.  Only a panic leaves the     *)
(* last block cut short and the records after it unwritten.                *)
(***************************************************************************)
HeaderLine(span) == CatAll(<<Str("Span: \""), span.name, Str("\""), NL>>)[1]

BlocksText(batch, res) ==
    CatAll([i \in 1..Len(batch) |-> Block(batch[i], res)])

C4_BlocksOnly ==
    (op = "export" /\ pc = "running")
        => CatAll(NewWrites) = BlocksText(lastBatch, resource)

(***************************************************************************)
(* C4 as amended: the text a returning export wrote is, for each record    *)
(* of the batch, the rendered text followed by one blank line, and then    *)
(* one more line break for the call; an export that panics has written an  *)
(* initial part of that text.                                              *)
(***************************************************************************)
C4_BlocksThenLineBreak ==
    op = "export" =>
        LET expected == Cat(BlocksText(lastBatch, resource), NL)
            written  == CatAll(NewWrites)
        IN  /\ TextPrefix(written, expected)
            /\ pc = "running" => written = expected

C4_Witness ==
    /\ op = "export"
    /\ pc = "running"
    /\ Len(lastBatch) = 2
    /\ Len(NewWrites) = 3

(***************************************************************************)
(* C5: every event is rendered under "- Events:" as one line, the quoted   *)
(* name alone when the event has no attributes and otherwise the quoted    *)
(* name and {k1=v1, k2=v2, ...}, every attribute as key=value without      *)
(* spaces, joined by ", " in record order.  (Stated for records whose      *)
(* strings hold no line break.)                                            *)
(***************************************************************************)
RECURSIVE JoinKeyValues(_)
JoinKeyValues(attrs) ==
    IF attrs = <<>> THEN ""
    ELSE attrs[1].key[1] \o "=" \o DisplayValue(attrs[1].value)[1]
            \o (IF Len(attrs) = 1 THEN "" ELSE ", " \o JoinKeyValues(Tail(attrs)))

EventLine(event) ==
    IF event.attributes = <<>>
    THEN "  - \"" \o event.name[1] \o "\""
    ELSE "  - \"" \o event.name[1] \o "\" {"
            \o JoinKeyValues(event.attributes) \o "}"

StatusLineCount(status) ==
    CASE status.code = "Unset" -> 0
      [] status.code = "Ok" -> 1
      [] status.code = "Error" -> 2

\* The line numbers of the section headers in a block.
StartAt(span) == 2 + StatusLineCount(span.status)

ResourceAt(span) == StartAt(span) + 2

AttributesAt(span, res) == ResourceAt(span) + Len(res) + 1

EventsAt(span, res) == AttributesAt(span, res) + Len(span.attributes) + 1

LinksAt(span, res) == EventsAt(span, res) + Len(span.events) + 1

C5_EventLines ==
    (op = "export" /\ pc = "running") =>
        \A i \in 1..Len(NewBlocks) :
            LET span == lastBatch[i]
            IN  OneLine(span, resource) =>
                    \A j \in 1..Len(span.events) :
                        NewBlocks[i][EventsAt(span, resource) + j]
                            = EventLine(span.events[j])

(***************************************************************************)
(* C6: formatting a record whose start or end time precedes the Unix       *)
(* epoch does not panic.                                                   *)
(***************************************************************************)
C6_NoPanicBeforeEpoch ==
    (op = "export" /\ \E i \in 1..Len(lastBatch) : BeforeEpoch(lastBatch[i]))
        => panic \notin {"start time is before the unix epoch",
                         "end time is before the unix epoch"}

(***************************************************************************)
(* C7: when formatting one record of a batch fails, every other record of  *)
(* the batch is still rendered and written, and the process goes on.       *)
(***************************************************************************)
C7_OthersStillWritten ==
    (op = "export" /\ ~sinkFailed) =>
        /\ pc # "crashed"
        /\ \A i \in 1..Len(lastBatch) :
              ~BeforeEpoch(lastBatch[i]) =>
                  \E j \in 1..Len(NewWrites) :
                      NewWrites[j] = Block(lastBatch[i], resource)

(***************************************************************************)
(* C8: the status alone decides the status part of a block: nothing for    *)
(* Unset, "- Status: Ok" for Ok, "- Status: Error" and then "- Error: "    *)
(* with the description for Error; it comes directly after the Span line   *)
(* and directly before the "- Start:" line.                                *)
(***************************************************************************)
StatusText(status) ==
    CASE status.code = "Unset" -> Str("")
      [] status.code = "Ok" -> <<"- Status: Ok", "">>
      [] status.code = "Error" ->
            CatAll(<<Str("- Status: Error"), NL,
                     Str("- Error: "), status.description, NL>>)

HeadText(span) ==
    Cat(CatAll(<<Str("Span: \""), span.name, Str("\""), NL>>),
        StatusText(span.status))

C8_StatusPart ==
    op = "export" =>
        \A i \in 1..Len(NewBlocks) :
            LET e    == NewBlocks[i]
                span == lastBatch[i]
                head == HeadText(span)
            IN  /\ Len(e) <= Len(head) => TextPrefix(e, head)
                /\ Len(e) >= Len(head) => TextPrefix(head, e)
                /\ Len(e) > Len(head) =>
                      e[Len(head)] = "- Start: " \o ToString(span.start_time.sec)

C8_Witness ==
    /\ op = "export"
    /\ pc = "running"
    /\ \E i \in 1..Len(lastBatch) :
          /\ lastBatch[i].status.code = "Error"
          /\ NewBlocks[i][2] = "- Status: Error"
          /\ NewBlocks[i][3] = "- Error: Encountered the error flag in the query"

(***************************************************************************)
(* C9: a block of a record with valid timestamps holds the headers Span,   *)
(* [Status], "- Start:", "- End:", "- Resource:", "- Attributes:",         *)
(* "- Events:", "- Links:" in this order, each once, and each of the last  *)
(* four is followed by as many lines as its collection has elements, in    *)
(* the collection's order.                                                 *)
(***************************************************************************)
Count(lines, l) == Cardinality({k \in 1..Len(lines) : lines[k] = l})

KVLine(kv) == "  - " \o kv.key[1] \o ": " \o DisplayValue(kv.value)[1]

Shape(e, span, res) ==
    LET lines == Lines(e)
    IN  /\ Len(lines) = LinksAt(span, res) + Len(span.links) + 1
        /\ lines[1] = HeaderLine(span)
        /\ lines[StartAt(span)] = "- Start: " \o ToString(span.start_time.sec)
        /\ lines[StartAt(span) + 1] = "- End: " \o ToString(span.end_time.sec)
        /\ lines[ResourceAt(span)] = "- Resource:"
        /\ lines[AttributesAt(span, res)] = "- Attributes:"
        /\ lines[EventsAt(span, res)] = "- Events:"
        /\ lines[LinksAt(span, res)] = "- Links:"
        /\ lines[Len(lines)] = ""
        /\ \A h \in {"- Resource:", "- Attributes:", "- Events:", "- Links:"} :
              Count(lines, h) = 1
        /\ \A j \in 1..Len(res) :
              lines[ResourceAt(span) + j] = KVLine(res[j])
        /\ \A j \in 1..Len(span.attributes) :
              lines[AttributesAt(span, res) + j] = KVLine(span.attributes[j])
        /\ \A j \in 1..Len(span.links) :
              lines[LinksAt(span, res) + j] = "  - " \o span.links[j].debug

C9_Sections ==
    (op = "export" /\ pc = "running") =>
        \A i \in 1..Len(NewBlocks) :
            Shape(NewBlocks[i], lastBatch[i], resource)

(***************************************************************************)
(* C9 as amended: the same, for records and resources none of whose        *)
(* names, descriptions, keys and values holds a line break.                *)
(***************************************************************************)
C9_SectionsOfOneLineStrings ==
    (op = "export" /\ pc = "running") =>
        \A i \in 1..Len(NewBlocks) :
            OneLine(lastBatch[i], resource)
                => Shape(NewBlocks[i], lastBatch[i], resource)

C9_Witness ==
    /\ op = "export"
    /\ pc = "running"
    /\ resource = EmptyResource
    /\ lastBatch = <<AppStart, FailableWork>>
    /\ Len(NewBlocks) = 2

(***************************************************************************)
(* C10: set_resource changes only the current resource and writes nothing  *)
(* to the sink; export never changes the current resource; so the current  *)
(* resource is always the argument of the last set_resource (or the        *)
(* construction-time resource).                                            *)
(***************************************************************************)
C10_Frame ==
    /\ [](resource = lastSet)
    /\ [][ /\ op' = "set_resource" =>
                (out' = out /\ pc' = pc /\ ret' = ret /\ resource' = lastSet')
           /\ calls' # calls => resource' = resource ]_vars

C10_Witness ==
    /\ op = "set_resource"
    /\ calls = 1
    /\ Len(out) = 2
    /\ resource = EmptyResource

====
